---- MODULE Spec2Model ----
(***************************************************************************)
(* A model of the crawler package: the category-path cleanup processor     *)
(* (processors.py), the split-file JSON-lines exporter                     *)
(* (item_exporters.py), the export pipeline (pipelines.py) and the two     *)
(* spiders (spiders/nordstrom.py, spiders/asos.py).                        *)
(*                                                                         *)
(* Text is modelled as a sequence of one-character strings, so that        *)
(* str.lower(), the `in` substring test, os.path.join and the ".jl"        *)
(* suffix are computed rather than assumed.                                *)
(***************************************************************************)
EXTENDS Integers, Sequences, FiniteSets, TLC

VARIABLES
    \* RemoveSaleHome call under test
    rshArg,      \* the list contents as passed by the caller
    rshList,     \* current contents of that same list object
    rshRet,      \* outcome of the call: [raised, values]
    rshPc,       \* "ready" | "done"
    \* the file system under the working directory, and the exporter's calls
    spider,      \* spider.name of the run's spider
    fs,          \* [dirs: set of paths, files: path -> bytes written]
    fs0,         \* the file system as the run found it
    lastFiles,   \* fs.files as it was before the latest export_item call
    expLog,      \* export_item calls so far: [spider, item, raised, path, item_path,
                 \* during (exporter state), others (items then still waiting)]
    \* the crawl
    exporter,    \* pipeline.exporter: "none" | "exporting" | "finished"
    pending,     \* requests scheduled and not yet answered
    metaLists,   \* the list objects that pending product requests reference as
                 \* meta["article_type"]: <<link, grid page>> -> current contents
    inPipeline,  \* items yielded by a callback and not yet through process_item
    yielded,     \* every item a parse_item callback has yielded
    siteLeft,    \* pages of the site that no page handled so far links to
    last         \* the latest callback run: its request, what the page held, what it yielded

rshVars == <<rshArg, rshList, rshRet, rshPc>>
expVars == <<spider, fs, fs0, lastFiles, expLog>>
crawlVars == <<exporter, pending, metaLists, inPipeline, yielded, siteLeft, last>>
vars == <<rshVars, expVars, crawlVars>>

(***************************************************************************)
(* Text                                                                    *)
(***************************************************************************)
UpperChars == <<"A","B","C","D","E","F","G","H","I","J","K","L","M",
                "N","O","P","Q","R","S","T","U","V","W","X","Y","Z">>

LowerChars == <<"a","b","c","d","e","f","g","h","i","j","k","l","m",
                "n","o","p","q","r","s","t","u","v","w","x","y","z">>

\* the lower-case letter of every upper-case letter
LowerOf ==
    [c \in {UpperChars[i] : i \in DOMAIN UpperChars} |->
        LowerChars[CHOOSE i \in DOMAIN UpperChars : UpperChars[i] = c]]

\* str.lower() on one character
LowerChar(c) == IF c \in DOMAIN LowerOf THEN LowerOf[c] ELSE c

\* str.lower()
Lower(s) == [i \in DOMAIN s |-> LowerChar(s[i])]

\* `sub in s` on str
Contains(sub, s) ==
    \E i \in 0..(Len(s) - Len(sub)) : SubSeq(s, i + 1, i + Len(sub)) = sub

kwSale == <<"s","a","l","e">>
kwHome == <<"h","o","m","e">>

\* category labels a breadcrumb can show
lblHome    == <<"H","o","m","e">>
lblSale    == <<"S","a","l","e">>
lblhome    == <<"h","o","m","e">>
lblsale    == <<"s","a","l","e">>
lblWomen   == <<"w","o","m","e","n">>
lblShoes   == <<"s","h","o","e","s">>
lblResale  == <<"R","e","s","a","l","e">>
lblSlash   == <<"a","/","b">>
lblDotJl   == <<"s","h","o","e","s",".","j","l">>

Labels == {lblHome, lblSale, lblhome, lblsale, lblWomen, lblShoes,
           lblResale, lblSlash, lblDotJl}

\* longest raw article_type list explored
MaxLen == 3

RECURSIVE SeqsUpTo(_, _)
SeqsUpTo(S, n) ==
    IF n = 0 THEN {<<>>}
    ELSE LET shorter == SeqsUpTo(S, n - 1)
         IN shorter \cup {Append(s, x) : s \in {t \in shorter : Len(t) = n - 1}, x \in S}

\* non-empty raw lists (the spider only forwards a non-empty extraction)
CandidateLists == SeqsUpTo(Labels, MaxLen) \ {<<>>}

(***************************************************************************)
(* processors.py                                                           *)
(***************************************************************************)
\* list.pop(i), 0-based, on a list that has index i
Pop(s, i) == SubSeq(s, 1, i) \o SubSeq(s, i + 2, Len(s))

\* the home test made before the sale test
RemoveSaleHome_HomeFirst(values) ==
    IF Len(values) < 1 THEN [raised |-> "IndexError", values |-> values]
    ELSE LET v1 == IF Contains(kwHome, Lower(values[1])) THEN Pop(values, 0) ELSE values
         IN IF Len(v1) < 2 THEN [raised |-> "IndexError", values |-> v1]
            ELSE [raised |-> "none",
                  values |-> IF Contains(kwSale, Lower(v1[2])) THEN Pop(v1, 1) ELSE v1]

\* the sale test made on index 0 instead of index 1
RemoveSaleHome_SaleAtZero(values) ==
    IF Len(values) < 1 THEN [raised |-> "IndexError", values |-> values]
    ELSE LET v1 == IF Contains(kwSale, Lower(values[1])) THEN Pop(values, 0) ELSE values
         IN IF Len(v1) < 1 THEN [raised |-> "IndexError", values |-> v1]
            ELSE [raised |-> "none",
                  values |-> IF Contains(kwHome, Lower(v1[1])) THEN Pop(v1, 0) ELSE v1]

\* RemoveSaleHome.__call__: the final contents of the list object and whether
\* an index was out of range (values[1] on a list shorter than 2)
RemoveSaleHome(values) ==
    IF Len(values) < 2 THEN [raised |-> "IndexError", values |-> values]
    ELSE LET v1 == IF Contains(kwSale, Lower(values[2])) THEN Pop(values, 1) ELSE values
         IN IF Len(v1) < 1 THEN [raised |-> "IndexError", values |-> v1]
            ELSE [raised |-> "none",
                  values |-> IF Contains(kwHome, Lower(v1[1])) THEN Pop(v1, 0) ELSE v1]

NoRet == [raised |-> "pending", values |-> <<>>]

\* no processor call in progress
RshIdle ==
    /\ rshArg = <<>>
    /\ rshList = <<>>
    /\ rshRet = NoRet
    /\ rshPc = "done"

EmptyFs == [dirs |-> {}, files |-> <<>>]

\* nothing exported, nothing on disk
ExpIdle ==
    /\ spider = <<>>
    /\ fs = EmptyFs
    /\ fs0 = EmptyFs
    /\ lastFiles = <<>>
    /\ expLog = <<>>

\* a request: its callback, the place its URL names (category link, and for a
\* product the grid page and tile it was linked from; 0 where the URL has
\* none), the page and top parameters of the URL's query and the value of its
\* one other parameter (<<>> when the query has none), and meta["page"] and
\* meta["article_type"] (0 and <<>> when unset)
NoReq == [cb |-> "none", link |-> 0, grid |-> 0, tile |-> 0, qpage |-> 0, qtop |-> 0,
          qother |-> <<>>, page |-> 0, article_type |-> <<>>]

\* a callback run: the request answered, what the page held (links, indicator
\* labels, tiles, data block), the local end_of_articles when the callback ends
\* ("unset" where it was never assigned), and what the run gave
NoRun == [cb |-> "none", req |-> NoReq, links |-> 0, indicators |-> <<>>, tiles |-> 0,
          data |-> "none", end_of_articles |-> "unset",
          issued |-> <<>>, items |-> <<>>, raised |-> "none"]

\* no crawl in progress
CrawlIdle ==
    /\ exporter = "none"
    /\ pending = {}
    /\ metaLists = <<>>
    /\ inPipeline = {}
    /\ yielded = {}
    /\ siteLeft = 0
    /\ last = NoRun

CleanInit ==
    /\ CrawlIdle
    /\ rshArg \in CandidateLists
    /\ rshList = rshArg
    /\ rshRet = NoRet
    /\ rshPc = "ready"
    /\ ExpIdle

\* one call of the processor on the list object; pops act on the object itself
CallRemoveSaleHome ==
    /\ rshPc = "ready"
    /\ LET r == RemoveSaleHome(rshList)
       IN /\ rshList' = r.values
          /\ rshRet' = r
    /\ rshPc' = "done"
    /\ UNCHANGED <<rshArg, expVars, crawlVars>>

CleanNext == CallRemoveSaleHome

SpecClean == CleanInit /\ [][CleanNext]_vars

(***************************************************************************)
(* Claims about RemoveSaleHome, checked under SpecClean                    *)
(***************************************************************************)
\* the cleanup rule stated by position: index 1 goes iff it holds "sale",
\* index 0 goes iff it holds "home", everything else stays in order
RefCleanup(v) ==
    (IF Contains(kwHome, Lower(v[1])) THEN <<>> ELSE <<v[1]>>)
    \o (IF Contains(kwSale, Lower(v[2])) THEN <<>> ELSE <<v[2]>>)
    \o SubSeq(v, 3, Len(v))

\* C5: for every candidate list of length >= 2 the processor returns the
\* positional reference result (drop index 1 if it contains "sale", then drop
\* index 0 if it contains "home", keep the rest in order), and in particular
\* [home,sale,shoes] -> [shoes] and [home,women,shoes] -> [women,shoes].
C5_CleanupEqualsReference ==
    (rshPc = "done" /\ Len(rshArg) >= 2) =>
        /\ rshRet.raised = "none"
        /\ rshRet.values = RefCleanup(rshArg)
        /\ (rshArg = <<lblhome, lblsale, lblShoes>> => rshRet.values = <<lblShoes>>)
        /\ (rshArg = <<lblhome, lblWomen, lblShoes>> => rshRet.values = <<lblWomen, lblShoes>>)

C5_Witness ==
    /\ rshPc = "done"
    /\ rshArg = <<lblhome, lblsale, lblShoes>>
    /\ rshRet.values = <<lblShoes>>

C7_SaleAtIndexOneKept ==
    (rshPc = "done" /\ rshArg = <<lblWomen, lblsale, lblShoes>>) =>
        rshRet.values = <<lblWomen, lblsale, lblShoes>>

\* C7 amended: for input [women,sale,shoes] the processor drops the "sale"
\* label at index 1 and keeps index 0, returning [women,shoes].
C7_SaleAtIndexOneDropped ==
    (rshPc = "done" /\ rshArg = <<lblWomen, lblsale, lblShoes>>) =>
        /\ rshRet.raised = "none"
        /\ rshRet.values = <<lblWomen, lblShoes>>

C7_Witness ==
    /\ rshPc = "done"
    /\ rshArg = <<lblWomen, lblsale, lblShoes>>
    /\ Len(rshRet.values) = 2

(***************************************************************************)
(* item_exporters.py: paths, the file system, JSON lines                   *)
(***************************************************************************)
txtScrapedData == <<"s","c","r","a","p","e","d","_","d","a","t","a">>
txtNordstrom   == <<"n","o","r","d","s","t","r","o","m">>
txtAsos        == <<"a","s","o","s">>
txtJl          == <<".","j","l">>

\* spider.name of the two spiders
SpiderNames == {txtNordstrom, txtAsos}

\* os.linesep on this platform
linesep == <<"\n">>

\* posixpath.join(a, b)
PathJoin2(a, b) ==
    IF Len(b) > 0 /\ b[1] = "/" THEN b
    ELSE IF Len(a) = 0 \/ a[Len(a)] = "/" THEN a \o b
    ELSE a \o <<"/">> \o b

\* posixpath.join(*parts) for at least one part
RECURSIVE PathJoin(_)
PathJoin(parts) ==
    IF Len(parts) = 1 THEN parts[1]
    ELSE PathJoin2(PathJoin(SubSeq(parts, 1, Len(parts) - 1)), parts[Len(parts)])

\* s cut at every occurrence of ch: the pieces between them, empty ones kept
SplitAt(s, ch) ==
    LET at == {i \in DOMAIN s : s[i] = ch}
        n == Cardinality(at)
        pos(k) == CHOOSE i \in at : Cardinality({j \in at : j <= i}) = k
    IN [k \in 1..(n + 1) |->
           SubSeq(s, IF k = 1 THEN 1 ELSE pos(k - 1) + 1,
                     IF k = n + 1 THEN Len(s) ELSE pos(k) - 1)]

IsName(x) == x # <<>>

\* the components the kernel resolves a relative path string to ("/" separates,
\* empty components vanish)
Components(p) == SelectSeq(SplitAt(p, "/"), IsName)

ProperPrefixes(c) == {SubSeq(c, 1, k) : k \in 1..(Len(c) - 1)}

\* os.path.exists(path)
Exists(f, p) ==
    LET c == Components(p)
    IN c = <<>> \/ c \in f.dirs \/ c \in DOMAIN f.files

\* os.makedirs(path), called on a path that does not exist: every missing
\* directory on the way is created unless a file stands in the way
MakeDirs(f, p) ==
    LET c == Components(p)
    IN IF \E q \in ProperPrefixes(c) : q \in DOMAIN f.files
       THEN [raised |-> "NotADirectoryError", fs |-> f]
       ELSE [raised |-> "none",
             fs |-> [f EXCEPT !.dirs = @ \cup ProperPrefixes(c) \cup {c}]]

\* open(item_path, 'w+b').write(data): the file is truncated on open
OpenAppendWrite_Truncate(f, p, data) ==
    LET c == Components(p)
        parent == SubSeq(c, 1, Len(c) - 1)
    IN IF \E q \in ProperPrefixes(c) : q \in DOMAIN f.files
       THEN [raised |-> "NotADirectoryError", fs |-> f]
       ELSE IF parent # <<>> /\ parent \notin f.dirs
       THEN [raised |-> "FileNotFoundError", fs |-> f]
       ELSE IF c \in f.dirs
       THEN [raised |-> "IsADirectoryError", fs |-> f]
       ELSE [raised |-> "none",
             fs |-> [f EXCEPT !.files =
                        [q \in DOMAIN f.files \cup {c} |->
                            IF q = c THEN data ELSE f.files[q]]]]

\* open(item_path, 'a+b').write(data): the file is created when absent, the
\* bytes go after what it holds, and the handle is dropped (and so flushed and
\* closed) at the end of the statement
OpenAppendWrite(f, p, data) ==
    LET c == Components(p)
        parent == SubSeq(c, 1, Len(c) - 1)
    IN IF \E q \in ProperPrefixes(c) : q \in DOMAIN f.files
       THEN [raised |-> "NotADirectoryError", fs |-> f]
       ELSE IF parent # <<>> /\ parent \notin f.dirs
       THEN [raised |-> "FileNotFoundError", fs |-> f]
       ELSE IF c \in f.dirs
       THEN [raised |-> "IsADirectoryError", fs |-> f]
       ELSE [raised |-> "none",
             fs |-> [f EXCEPT !.files =
                        [q \in DOMAIN f.files \cup {c} |->
                            IF q = c
                            THEN (IF c \in DOMAIN f.files THEN f.files[c] ELSE <<>>) \o data
                            ELSE f.files[q]]]]

\* json: one character of a string literal
JsonEscapeChar(c) ==
    IF c = "\n" THEN <<"\\", "n">>
    ELSE IF c = "\"" THEN <<"\\", "\"">>
    ELSE IF c = "\\" THEN <<"\\", "\\">>
    ELSE <<c>>

RECURSIVE JsonEscape(_)
JsonEscape(s) ==
    IF s = <<>> THEN <<>> ELSE JsonEscapeChar(Head(s)) \o JsonEscape(Tail(s))

\* a string literal written without escaping
JsonString_Raw(s) == <<"\"">> \o s \o <<"\"">>

\* json: a string literal
JsonString(s) == <<"\"">> \o JsonEscape(s) \o <<"\"">>

\* json: a list of strings
RECURSIVE JsonItems(_)
JsonItems(l) ==
    IF l = <<>> THEN <<>>
    ELSE IF Len(l) = 1 THEN JsonString(l[1])
    ELSE JsonString(l[1]) \o <<", ">> \o JsonItems(Tail(l))

JsonList(l) == <<"[">> \o JsonItems(l) \o <<"]">>

\* ScrapyJSONEncoder().encode(dict(item)) for an item holding these three
\* fields; each fixed key is one token of the output
Encode(item) ==
    <<"{", "\"article_type\": ">> \o JsonList(item.article_type)
    \o <<", \"product_name\": ">> \o JsonString(item.product_name)
    \o <<", \"product_url\": ">> \o JsonString(item.product_url)
    \o <<"}">>

\* every record goes to the single-label place, whatever its article_type
TargetPaths_Flat(name, at) ==
    LET path == PathJoin(<<txtScrapedData, name>>)
    IN [path |-> path, item_path |-> PathJoin(<<path, at[1]>>) \o txtJl]

\* the directory and the file export_item picks for a non-empty article_type
TargetPaths(name, at) ==
    IF Len(at) = 1
    THEN LET path == PathJoin(<<txtScrapedData, name>>)
         IN [path |-> path, item_path |-> PathJoin(<<path, at[1]>>) \o txtJl]
    ELSE LET path == PathJoin(<<PathJoin(<<txtScrapedData, name>>),
                                PathJoin(SubSeq(at, 1, Len(at) - 1))>>)
         IN [path |-> path, item_path |-> PathJoin(<<path, at[Len(at)]>>) \o txtJl]

\* the record is written without the line separator
ExportItem_NoLinesep(name, item, f) ==
    LET tp == TargetPaths(name, item.article_type)
        made == IF Exists(f, tp.path) THEN [raised |-> "none", fs |-> f]
                ELSE MakeDirs(f, tp.path)
        wrote == OpenAppendWrite(made.fs, tp.item_path, Encode(item))
    IN IF Len(item.article_type) = 0
       THEN [raised |-> "TypeError", fs |-> f, path |-> <<>>, item_path |-> <<>>]
       ELSE IF made.raised # "none"
       THEN [raised |-> made.raised, fs |-> made.fs,
             path |-> tp.path, item_path |-> tp.item_path]
       ELSE [raised |-> wrote.raised, fs |-> wrote.fs,
             path |-> tp.path, item_path |-> tp.item_path]

\* JsonLinesItemSplitFileExporter.export_item(spider, item): what it raises
\* (os.path.join() of no labels is a TypeError), the file system it leaves,
\* and the directory and file it computed
ExportItem(name, item, f) ==
    LET data == Encode(item) \o linesep
        tp == TargetPaths(name, item.article_type)
        made == IF Exists(f, tp.path) THEN [raised |-> "none", fs |-> f]
                ELSE MakeDirs(f, tp.path)
        wrote == OpenAppendWrite(made.fs, tp.item_path, data)
    IN IF Len(item.article_type) = 0
       THEN [raised |-> "TypeError", fs |-> f, path |-> <<>>, item_path |-> <<>>]
       ELSE IF made.raised # "none"
       THEN [raised |-> made.raised, fs |-> made.fs,
             path |-> tp.path, item_path |-> tp.item_path]
       ELSE [raised |-> wrote.raised, fs |-> wrote.fs,
             path |-> tp.path, item_path |-> tp.item_path]

\* one export_item call on the shared file system
ExportStep(item) ==
    LET r == ExportItem(spider, item, fs)
    IN /\ fs' = r.fs
       /\ lastFiles' = fs.files
       /\ expLog' = Append(expLog, [spider |-> spider, item |-> item, raised |-> r.raised,
                                    path |-> r.path, item_path |-> r.item_path,
                                    during |-> exporter, others |-> inPipeline \ {item}])
       /\ UNCHANGED <<spider, fs0>>

\* breadcrumbs a grid page can show
Breadcrumbs ==
    { <<lblHome, lblWomen, lblShoes>>,
      <<lblWomen, lblShoes>>,
      <<lblHome, lblSale, lblShoes>>,
      <<lblHome, lblSale>>,
      <<lblHome, lblDotJl, lblWomen>>,
      <<lblHome, lblSlash>>,
      <<lblHome>> }

\* the article_type values a loaded item can hold
ArticleTypes ==
    {RemoveSaleHome(b).values : b \in {c \in Breadcrumbs : RemoveSaleHome(c).raised = "none"}}

\* two products: a plain name, and a name whose text node holds a line break
urlOne  == <<"u","1">>
urlTwo  == <<"u","2">>
nameTee == <<"T","e","e">>
nameBrk == <<"T","\n","e">>

Products == { [product_url |-> urlOne, product_name |-> nameTee],
              [product_url |-> urlTwo, product_name |-> nameBrk] }

Items ==
    { [article_type |-> at, product_url |-> p.product_url, product_name |-> p.product_name] :
        at \in ArticleTypes, p \in Products }

\* export_item calls explored in one run of the exporter
MaxExports == 3

\* what an earlier run can have left on disk
EarlierRuns ==
    { EmptyFs,
      ExportItem(txtNordstrom,
                 [article_type |-> <<lblWomen, lblShoes>>,
                  product_url |-> urlTwo, product_name |-> nameBrk],
                 EmptyFs).fs }

ExportInit ==
    /\ RshIdle
    /\ exporter = "exporting"
    /\ pending = {}
    /\ metaLists = <<>>
    /\ inPipeline = {}
    /\ yielded = {}
    /\ siteLeft = 0
    /\ last = NoRun
    /\ spider \in SpiderNames
    /\ fs \in EarlierRuns
    /\ fs0 = fs
    /\ lastFiles = fs.files
    /\ expLog = <<>>

CallExportItem ==
    /\ Len(expLog) < MaxExports
    /\ \E item \in Items : ExportStep(item)
    /\ UNCHANGED <<rshVars, crawlVars>>

ExportNext == CallExportItem

SpecExport == ExportInit /\ [][ExportNext]_vars

(***************************************************************************)
(* Claims about export_item, checked under SpecExport                      *)
(***************************************************************************)
\* the whole lines of a file, and what follows its last line separator
LinesOf(content) ==
    LET parts == SplitAt(content, "\n") IN SubSeq(parts, 1, Len(parts) - 1)

PartialLine(content) ==
    LET parts == SplitAt(content, "\n") IN parts[Len(parts)]

\* the records whose export_item call wrote to file c, in call order
RECURSIVE RoutedTo(_, _)
RoutedTo(log, c) ==
    IF log = <<>> THEN <<>>
    ELSE (IF Head(log).raised = "none" /\ Components(Head(log).item_path) = c
          THEN <<Encode(Head(log).item)>> ELSE <<>>)
         \o RoutedTo(Tail(log), c)

PriorContent(c) == IF c \in DOMAIN fs0.files THEN fs0.files[c] ELSE <<>>

\* C2: a partition file to which N records were written by export_item holds,
\* after the lines an earlier run left in it, exactly N lines, one per record
\* in call order, and ends with a line separator; no file of an earlier run
\* disappears or loses a line.
C2_AppendOnly ==
    /\ \A c \in DOMAIN fs0.files : c \in DOMAIN fs.files
    /\ \A c \in DOMAIN fs.files :
          /\ PartialLine(fs.files[c]) = <<>>
          /\ LinesOf(fs.files[c]) = LinesOf(PriorContent(c)) \o RoutedTo(expLog, c)
          /\ Len(LinesOf(fs.files[c])) =
                Len(LinesOf(PriorContent(c))) + Len(RoutedTo(expLog, c))

C2_Witness ==
    \E c \in DOMAIN fs.files :
        /\ c \in DOMAIN fs0.files
        /\ Len(RoutedTo(expLog, c)) = 2
        /\ Len(LinesOf(fs.files[c])) = 3
        /\ RoutedTo(expLog, c)[1] # RoutedTo(expLog, c)[2]

NoSeparator(label) == label # <<>> /\ \A i \in DOMAIN label : label[i] # "/"

PlainLabels(P) == \A i \in DOMAIN P : NoSeparator(P[i])

DirOf(s, P) == <<txtScrapedData, s>> \o SubSeq(P, 1, Len(P) - 1)

MaxSitePages == 5

\* the value the spider gives the `top` query parameter
TopParam == 4

Range(f) == {f[i] : i \in DOMAIN f}

\* indicator extractions a category page can give; <<>> is a page without any
GridIndicators ==
    { <<>>,
      <<lblHome>>,
      <<lblHome, lblSale>>,
      <<lblHome, lblWomen, lblShoes>> }

Digits == <<"0","1","2","3","4","5","6","7","8","9">>

\* response.url of a product page
UrlText(req) == <<"u", Digits[req.link + 1], Digits[req.grid + 1], Digits[req.tile + 1]>>

\* the product title the page shows
ProductName(req) == IF req.grid = 1 THEN nameBrk ELSE nameTee

\* the value of the other query parameter in the href of the k-th category
\* link: the first link has one, the others have none
LinkOther(k) == IF k = 1 THEN <<"v">> ELSE <<>>

\* parse_qs: the values of one key, as a list; a key that is absent has none
ParseQs(v) == IF v = <<>> THEN <<>> ELSE <<v>>

\* repr() of a str: double quotes when it holds a single and no double quote,
\* single quotes otherwise; the backslash and the chosen quote are escaped
PyReprChar(q, c) ==
    IF c = "\\" THEN <<"\\", "\\">>
    ELSE IF c = q THEN <<"\\", q>>
    ELSE <<c>>

RECURSIVE PyReprBody(_, _)
PyReprBody(q, t) ==
    IF t = <<>> THEN <<>> ELSE PyReprChar(q, Head(t)) \o PyReprBody(q, Tail(t))

PyRepr(t) ==
    LET q == IF (\E i \in DOMAIN t : t[i] = "'") /\ ~(\E i \in DOMAIN t : t[i] = "\"")
             THEN "\"" ELSE "'"
    IN <<q>> \o PyReprBody(q, t) \o <<q>>

\* urlencode(query) without doseq: the value sent for a key whose value is the
\* one-element list parse_qs made is str() of that list
UrlEncodeList(l) == IF l = <<>> THEN <<>> ELSE <<"[">> \o PyRepr(l[1]) \o <<"]">>

\* the other parameter after parse_qs, query.update and urlencode
Requery(v) == UrlEncodeList(ParseQs(v))

\* NordstromSpider.parse: one request per extracted link, each for page 1
NordParseRequests(n) ==
    [k \in 1..n |->
        [cb |-> "parse_article", link |-> k, grid |-> 0, tile |-> 0,
         qpage |-> 1, qtop |-> TopParam, qother |-> Requery(LinkOther(k)),
         page |-> 1, article_type |-> <<>>]]

\* the next page is requested even when the grid shows no product
NordArticleRequests_NoEnd(req, indicators, tiles) ==
    IF indicators = <<>> THEN <<>>
    ELSE [k \in 1..tiles |->
             [cb |-> "parse_item", link |-> req.link, grid |-> req.qpage, tile |-> k,
              qpage |-> 0, qtop |-> 0, qother |-> <<>>, page |-> 0,
              article_type |-> indicators]]
         \o << [cb |-> "parse_article", link |-> req.link, grid |-> 0, tile |-> 0,
                qpage |-> req.page + 1, qtop |-> TopParam,
                qother |-> Requery(req.qother), page |-> req.page + 1,
                article_type |-> <<>>] >>

\* the indicator test is left out: the tiles alone decide
NordArticleRequests_NoIndicatorTest(req, indicators, tiles) ==
    IF tiles > 0
    THEN [k \in 1..tiles |->
             [cb |-> "parse_item", link |-> req.link, grid |-> req.qpage, tile |-> k,
              qpage |-> 0, qtop |-> 0, qother |-> <<>>, page |-> 0,
              article_type |-> indicators]]
         \o << [cb |-> "parse_article", link |-> req.link, grid |-> 0, tile |-> 0,
                qpage |-> req.page + 1, qtop |-> TopParam,
                qother |-> Requery(req.qother), page |-> req.page + 1,
                article_type |-> <<>>] >>
    ELSE <<>>

\* NordstromSpider.parse_article: the local flag end_of_articles when the
\* callback ends; it is assigned only inside `if article_type:`
EndOfArticles(indicators, tiles) ==
    IF indicators = <<>> THEN "unset"
    ELSE IF tiles > 0 THEN "False"
    ELSE "True"

\* NordstromSpider.parse_article: the requests it yields, in order, for a page
\* with these indicator labels and this many product tiles
NordArticleRequests(req, indicators, tiles) ==
    IF indicators = <<>> THEN <<>>
    ELSE IF tiles > 0
    THEN [k \in 1..tiles |->
             [cb |-> "parse_item", link |-> req.link, grid |-> req.qpage, tile |-> k,
              qpage |-> 0, qtop |-> 0, qother |-> <<>>, page |-> 0,
              article_type |-> indicators]]
         \o << [cb |-> "parse_article", link |-> req.link, grid |-> 0, tile |-> 0,
                qpage |-> req.page + 1, qtop |-> TopParam,
                qother |-> Requery(req.qother), page |-> req.page + 1,
                article_type |-> <<>>] >>
    ELSE <<>>

\* TakeFirst(): the first collected value that is neither None nor '';
\* <<>> stands for None, with which load_item leaves the field unset
TakeFirst(values) ==
    IF \E i \in DOMAIN values : values[i] # <<>>
    THEN values[CHOOSE i \in DOMAIN values :
                    values[i] # <<>> /\ \A j \in 1..(i - 1) : values[j] = <<>>]
    ELSE <<>>

\* the product url is collected from a selector that matches nothing on the
\* page of a first tile
NordLoadItem_UrlFromPage(req) ==
    LET r == RemoveSaleHome(req.article_type)
    IN IF r.raised # "none"
       THEN [raised |-> "ValueError", meta |-> req.article_type, items |-> <<>>]
       ELSE [raised |-> "none", meta |-> req.article_type,
             items |-> << [article_type |-> r.values,
                           product_url |-> TakeFirst(IF req.tile = 1 THEN <<>>
                                                     ELSE <<UrlText(req)>>),
                           product_name |-> TakeFirst(<<ProductName(req)>>)] >>]

\* the output processor is handed the list object of meta["article_type"]
\* itself, so its pops act on the list the sibling requests reference
NordLoadItem_SharedList(req) ==
    LET r == RemoveSaleHome(req.article_type)
    IN IF r.raised # "none"
       THEN [raised |-> "ValueError", meta |-> r.values, items |-> <<>>]
       ELSE [raised |-> "none", meta |-> r.values,
             items |-> << [article_type |-> r.values,
                           product_url |-> TakeFirst(<<UrlText(req)>>),
                           product_name |-> TakeFirst(<<ProductName(req)>>)] >>]

\* article_type is declared without its output processor
NordLoadItem_RawType(req) ==
    [raised |-> "none", meta |-> req.article_type,
     items |-> << [article_type |-> req.article_type,
                   product_url |-> TakeFirst(<<UrlText(req)>>),
                   product_name |-> TakeFirst(<<ProductName(req)>>)] >>]

\* NordstromSpider.parse_item on a request whose meta["article_type"] list
\* holds req.article_type: add_value extends the loader's own, new list with
\* the labels, load_item runs the output processors on the loader's lists (an
\* error in one is raised as ValueError and nothing is yielded); meta is the
\* contents of the meta list afterwards
NordLoadItem(req) ==
    LET r == RemoveSaleHome(req.article_type)
    IN IF r.raised # "none"
       THEN [raised |-> "ValueError", meta |-> req.article_type, items |-> <<>>]
       ELSE [raised |-> "none", meta |-> req.article_type,
             items |-> << [article_type |-> r.values,
                           product_url |-> TakeFirst(<<UrlText(req)>>),
                           product_name |-> TakeFirst(<<ProductName(req)>>)] >>]

\* the list object a product request references
MetaKey(r) == <<r.link, r.grid>>

\* a list object lives as long as a pending request references it
LiveLists(ml, pend) ==
    LET keys == {MetaKey(r) : r \in {q \in pend : q.cb = "parse_item"}} \cap DOMAIN ml
    IN IF keys = {} THEN <<>> ELSE [k \in keys |-> ml[k]]

\* parse_article: the one list `article_type` the page's extraction returned
\* is assigned to the meta of every product request of the page
NewList(ml, issued, indicators) ==
    LET keys == {MetaKey(r) : r \in {q \in Range(issued) : q.cb = "parse_item"}}
    IN IF keys = {} THEN ml
       ELSE [k \in DOMAIN ml \cup keys |-> IF k \in keys THEN indicators ELSE ml[k]]

\* AsosSpider.parse / parse_article: meta={'item': item} names an undefined
\* `item`, so building the first request raises before anything is yielded
AsosRequests(cb, n) ==
    IF n = 0 THEN [raised |-> "none", issued |-> <<>>]
    ELSE [raised |-> "NameError", issued |-> <<>>]

\* what the product page's script block holds
AsosData == {"absent", "malformed", "variants_list", "variants_dict"}

\* the substitutions are run on a missing data block too
AsosLoadItem_NoGuard(data) ==
    IF data = "malformed" THEN [raised |-> "JSONDecodeError", items |-> <<>>]
    ELSE [raised |-> "TypeError", items |-> <<>>]

\* AsosSpider.parse_item: no data block is a silent return; json.loads fails on
\* a malformed block; otherwise the loop over data_json['variants'] or the
\* later data_json['variants']['colour'] indexes a list or a str by a str
AsosLoadItem(data) ==
    IF data = "absent" THEN [raised |-> "none", items |-> <<>>]
    ELSE IF data = "malformed" THEN [raised |-> "JSONDecodeError", items |-> <<>>]
    ELSE [raised |-> "TypeError", items |-> <<>>]

\* the requests a run starts from: start_urls through parse; the asos
\* callbacks, which read nothing from meta, can also be entered one by one
EntryRequests(name) ==
    IF name = txtNordstrom THEN {[NoReq EXCEPT !.cb = "parse"]}
    ELSE {[NoReq EXCEPT !.cb = c] : c \in {"parse", "parse_article", "parse_item"}}

Init ==
    /\ RshIdle
    /\ spider \in SpiderNames
    /\ fs \in EarlierRuns
    /\ fs0 = fs
    /\ lastFiles = fs.files
    /\ expLog = <<>>
    /\ exporter = "none"
    /\ pending = {}
    /\ metaLists = <<>>
    /\ inPipeline = {}
    /\ yielded = {}
    /\ siteLeft = MaxSitePages
    /\ last = NoRun

\* the site's directory is made when the exporter is set up
SpiderOpened_EagerDir ==
    /\ exporter = "none"
    /\ exporter' = "exporting"
    /\ \E r \in EntryRequests(spider) : pending' = {r}
    /\ fs' = MakeDirs(fs, PathJoin(<<txtScrapedData, spider>>)).fs
    /\ UNCHANGED <<rshVars, spider, fs0, lastFiles, expLog, metaLists, inPipeline, yielded, siteLeft, last>>

\* FashionSiteExportPipeline.spider_opened, after which the engine schedules
\* the first request
SpiderOpened ==
    /\ exporter = "none"
    /\ exporter' = "exporting"
    /\ \E r \in EntryRequests(spider) : pending' = {r}
    /\ UNCHANGED <<rshVars, expVars, metaLists, inPipeline, yielded, siteLeft, last>>

NordParse ==
    /\ spider = txtNordstrom
    /\ \E req \in pending, n \in 0..siteLeft :
          /\ req.cb = "parse"
          /\ LET issued == NordParseRequests(n)
             IN /\ pending' = (pending \ {req}) \cup Range(issued)
                /\ siteLeft' = siteLeft - Len(issued)
                /\ last' = [NoRun EXCEPT !.cb = "parse", !.req = req, !.links = n,
                                         !.issued = issued]
    /\ UNCHANGED <<rshVars, expVars, exporter, metaLists, inPipeline, yielded>>

NordParseArticle ==
    /\ spider = txtNordstrom
    /\ \E req \in pending, ind \in GridIndicators, t \in 0..siteLeft :
          /\ req.cb = "parse_article"
          /\ t > 0 => t + 1 <= siteLeft
          /\ LET issued == NordArticleRequests(req, ind, t)
             IN /\ pending' = (pending \ {req}) \cup Range(issued)
                /\ metaLists' = NewList(metaLists, issued, ind)
                /\ siteLeft' = siteLeft - Len(issued)
                /\ last' = [NoRun EXCEPT !.cb = "parse_article", !.req = req,
                                         !.indicators = ind, !.tiles = t,
                                         !.end_of_articles = EndOfArticles(ind, t),
                                         !.issued = issued]
    /\ UNCHANGED <<rshVars, expVars, exporter, inPipeline, yielded>>

NordParseItem ==
    /\ spider = txtNordstrom
    /\ \E req \in pending :
          /\ req.cb = "parse_item"
          /\ pending' = pending \ {req}
          /\ \E held \in {[req EXCEPT !.article_type = metaLists[MetaKey(req)]]} :
             \E r \in {NordLoadItem(held)} :
                /\ metaLists' = LiveLists([metaLists EXCEPT ![MetaKey(req)] = r.meta],
                                          pending \ {req})
                /\ inPipeline' = inPipeline \cup Range(r.items)
                /\ yielded' = yielded \cup Range(r.items)
                /\ last' = [NoRun EXCEPT !.cb = "parse_item", !.req = req,
                                         !.items = r.items, !.raised = r.raised]
    /\ UNCHANGED <<rshVars, expVars, exporter, siteLeft>>

AsosParse ==
    /\ spider = txtAsos
    /\ \E req \in pending, n \in 0..siteLeft :
          /\ req.cb = "parse"
          /\ LET r == AsosRequests("parse_article", n)
             IN /\ pending' = (pending \ {req}) \cup Range(r.issued)
                /\ siteLeft' = siteLeft - Len(r.issued)
                /\ last' = [NoRun EXCEPT !.cb = "parse", !.req = req, !.links = n,
                                         !.issued = r.issued, !.raised = r.raised]
    /\ UNCHANGED <<rshVars, expVars, exporter, metaLists, inPipeline, yielded>>

AsosParseArticle ==
    /\ spider = txtAsos
    /\ \E req \in pending, n \in 0..siteLeft :
          /\ req.cb = "parse_article"
          /\ LET r == AsosRequests("parse_item", n)
             IN /\ pending' = (pending \ {req}) \cup Range(r.issued)
                /\ siteLeft' = siteLeft - Len(r.issued)
                /\ last' = [NoRun EXCEPT !.cb = "parse_article", !.req = req, !.links = n,
                                         !.issued = r.issued, !.raised = r.raised]
    /\ UNCHANGED <<rshVars, expVars, exporter, metaLists, inPipeline, yielded>>

AsosParseItem ==
    /\ spider = txtAsos
    /\ \E req \in pending, data \in AsosData :
          /\ req.cb = "parse_item"
          /\ LET r == AsosLoadItem(data)
             IN /\ pending' = pending \ {req}
                /\ inPipeline' = inPipeline \cup Range(r.items)
                /\ yielded' = yielded \cup Range(r.items)
                /\ last' = [NoRun EXCEPT !.cb = "parse_item", !.req = req, !.data = data,
                                         !.items = r.items, !.raised = r.raised]
    /\ UNCHANGED <<rshVars, expVars, exporter, metaLists, siteLeft>>

\* a download fails: no request is given an errback, so no callback runs
FetchFails ==
    /\ \E req \in pending :
          /\ pending' = pending \ {req}
          /\ metaLists' = LiveLists(metaLists, pending \ {req})
    /\ UNCHANGED <<rshVars, expVars, exporter, inPipeline, yielded, siteLeft, last>>

\* FashionSiteExportPipeline.process_item: self.exporter exists only once
\* spider_opened has run
ProcessItem ==
    /\ \E item \in inPipeline :
          /\ inPipeline' = inPipeline \ {item}
          /\ IF exporter = "none"
             THEN /\ expLog' = Append(expLog, [spider |-> spider, item |-> item,
                                               raised |-> "AttributeError", path |-> <<>>,
                                               item_path |-> <<>>, during |-> exporter,
                                               others |-> inPipeline \ {item}])
                  /\ UNCHANGED <<spider, fs, fs0, lastFiles>>
             ELSE ExportStep(item)
    /\ UNCHANGED <<rshVars, exporter, pending, metaLists, yielded, siteLeft, last>>

\* FashionSiteExportPipeline.spider_closed, sent once the engine is idle
SpiderClosed ==
    /\ exporter = "exporting"
    /\ pending = {}
    /\ inPipeline = {}
    /\ exporter' = "finished"
    /\ UNCHANGED <<rshVars, expVars, pending, metaLists, inPipeline, yielded, siteLeft, last>>

Next ==
    \/ SpiderOpened
    \/ NordParse
    \/ NordParseArticle
    \/ NordParseItem
    \/ AsosParse
    \/ AsosParseArticle
    \/ AsosParseItem
    \/ FetchFails
    \/ ProcessItem
    \/ SpiderClosed

Spec == Init /\ [][Next]_vars

\* a response is delivered: the callback of a pending request runs
Deliver ==
    \/ NordParse
    \/ NordParseArticle
    \/ NordParseItem
    \/ AsosParse
    \/ AsosParseArticle
    \/ AsosParseItem

\* the crawl, started in an empty working directory, with the engine's promise
\* that a scheduled request whose download succeeds is answered; downloads
\* may still fail
LiveInit == Init /\ fs = EmptyFs

SpecLive == LiveInit /\ [][Next]_vars /\ WF_vars(Deliver)

(***************************************************************************)
(* Claims about a crawl run, checked under Spec                            *)
(***************************************************************************)
IsPageRequest(r) == r.cb = "parse_article"

IsProductRequest(r) == r.cb = "parse_item"

\* C1: NordstromSpider.parse issues, per extracted link, one parse_article
\* request with page counter 1; parse_article on a page with indicators and
\* product tiles issues exactly one next-page request, for the same category,
\* with the handled request's counter plus 1; on a page with indicators and no
\* tile it issues no page request.
C1_Pagination ==
    spider = txtNordstrom =>
      /\ last.cb = "parse" =>
            /\ Len(last.issued) = last.links
            /\ \A i \in DOMAIN last.issued :
                  /\ last.issued[i].cb = "parse_article"
                  /\ last.issued[i].page = 1
            /\ \A i, j \in DOMAIN last.issued :
                  last.issued[i].link = last.issued[j].link => i = j
      /\ (last.cb = "parse_article" /\ last.indicators # <<>>) =>
            LET nextPages == SelectSeq(last.issued, IsPageRequest)
            IN IF last.tiles > 0
               THEN /\ Len(nextPages) = 1
                    /\ nextPages[1].page = last.req.page + 1
                    /\ nextPages[1].link = last.req.link
               ELSE Len(nextPages) = 0

C1_Witness ==
    /\ spider = txtNordstrom
    /\ last.cb = "parse_article"
    /\ last.indicators # <<>>
    /\ last.tiles > 0
    /\ last.req.page = 2
    /\ \E r \in pending : r.cb = "parse_article" /\ r.page = 3 /\ r.link = last.req.link

\* the records of this run that export_item wrote to file c
WrittenTo(c) == {RoutedTo(expLog, c)[i] : i \in DOMAIN RoutedTo(expLog, c)}

C8_AsosFanOut ==
    (spider = txtAsos /\ last.cb \in {"parse", "parse_article"}) =>
        /\ Len(last.issued) = last.links
        /\ \A i \in DOMAIN last.issued :
              last.issued[i].cb = (IF last.cb = "parse" THEN "parse_article" ELSE "parse_item")

\* C9: a failure in a callback or in an export leaves the sibling branches
\* alone: every link extracted from a handled page has its request issued
\* (category links by parse, product links by parse_article), and every record
\* that was waiting when an export failed is still waiting or was exported.
C9_ErrorIsolation ==
    /\ last.cb = "parse" => Len(last.issued) = last.links
    /\ (last.cb = "parse_article" /\ spider = txtAsos) => Len(last.issued) = last.links
    /\ (last.cb = "parse_article" /\ spider = txtNordstrom /\ last.indicators # <<>>) =>
          Len(SelectSeq(last.issued, IsProductRequest)) = last.tiles
    /\ \A k \in DOMAIN expLog :
          expLog[k].raised # "none" =>
              \A it \in expLog[k].others :
                  \/ it \in inPipeline
                  \/ \E j \in DOMAIN expLog : j > k /\ expLog[j].item = it

ExportsOf(it) == {k \in DOMAIN expLog : expLog[k].item = it}

\* lines of file c, beyond those an earlier run left, that are the record it
LinesHolding(c, it) ==
    {i \in DOMAIN LinesOf(fs.files[c]) :
        /\ i > Len(LinesOf(PriorContent(c)))
        /\ LinesOf(fs.files[c])[i] = Encode(it)}

\* every export_item call is for a yielded record and made while the exporter
\* is between spider_opened and spider_closed; a record is exported once
RoutedOnceInLifecycle ==
    /\ \A k \in DOMAIN expLog :
          /\ expLog[k].item \in yielded
          /\ expLog[k].during = "exporting"
    /\ \A it \in yielded :
          Cardinality(ExportsOf(it)) = (IF it \in inPipeline THEN 0 ELSE 1)
    /\ exporter = "finished" => inPipeline = {}

\* C10: every record yielded by parse_item is handed to export_item exactly
\* once, between spider_opened and spider_closed, and then is exactly one line
\* of exactly one partition file.
C10_ExactlyOnce ==
    /\ RoutedOnceInLifecycle
    /\ \A it \in yielded \ inPipeline :
          /\ Cardinality({c \in DOMAIN fs.files : LinesHolding(c, it) # {}}) = 1
          /\ \A c \in DOMAIN fs.files : Cardinality(LinesHolding(c, it)) <= 1

\* C11: AsosSpider.parse_item on a product page without the embedded data
\* block yields no record and raises nothing, whenever and however often such
\* a page is handled, and the step hands nothing to the pipeline or to
\* export_item and leaves the files alone.
C11_SilentSkip ==
    /\ [](  (spider = txtAsos /\ last.cb = "parse_item" /\ last.data = "absent") =>
              (last.items = <<>> /\ last.raised = "none") )
    /\ [][ (spider = txtAsos /\ pending' # pending
             /\ last'.cb = "parse_item" /\ last'.data = "absent") =>
               UNCHANGED <<yielded, inPipeline, expLog, fs>> ]_vars

C11_Witness ==
    /\ spider = txtAsos
    /\ last.cb = "parse_item"
    /\ last.data = "absent"
    /\ pending = {}
    /\ yielded = {}

\* C12: every record handed to export_item holds a product_url, and so does
\* every record a parse_item callback yields or that waits in the pipeline.
C12_ProductUrlPresent ==
    /\ \A k \in DOMAIN expLog : expLog[k].item.product_url # <<>>
    /\ \A it \in yielded \cup inPipeline : it.product_url # <<>>

C12_Witness ==
    /\ spider = txtNordstrom
    /\ \E k \in DOMAIN expLog :
          /\ expLog[k].raised = "none"
          /\ expLog[k].item.product_url = <<"u","1","1","1">>

\* C13: NordstromSpider.parse_article issues requests (one per product tile
\* and one for the next page) if and only if the page shows indicator labels
\* and product tiles; a page without indicator labels issues nothing, tiles or
\* not, and does not set the end-of-articles flag, which is set exactly on a
\* page with indicator labels and no tile.
C13_GridPageValidity ==
    (spider = txtNordstrom /\ last.cb = "parse_article") =>
        LET valid == last.indicators # <<>> /\ last.tiles > 0
        IN /\ valid => /\ Len(SelectSeq(last.issued, IsProductRequest)) = last.tiles
                       /\ Len(SelectSeq(last.issued, IsPageRequest)) = 1
                       /\ Len(last.issued) = last.tiles + 1
           /\ ~valid => last.issued = <<>>
           /\ last.indicators = <<>> => last.end_of_articles = "unset"
           /\ last.end_of_articles = "True" <=> (last.indicators # <<>> /\ last.tiles = 0)

C13_Witness ==
    /\ spider = txtNordstrom
    /\ last.cb = "parse_article"
    /\ last.indicators = <<>>
    /\ last.tiles > 0
    /\ last.issued = <<>>
    /\ pending = {}

IsPrefix(d, c) == Len(d) <= Len(c) /\ SubSeq(c, 1, Len(d)) = d

\* C14: as long as no record was handed to export_item the run leaves the
\* file system as it found it, up to and after spider_closed; a file that the
\* run created holds a record routed to it, a directory that the run created
\* is on the path an export_item call computed, and a record handed to
\* export_item is no longer held anywhere once the call is over.
C14_LazyPartitions ==
    /\ expLog = <<>> => fs = fs0
    /\ \A c \in DOMAIN fs.files \ DOMAIN fs0.files : RoutedTo(expLog, c) # <<>>
    /\ \A d \in fs.dirs \ fs0.dirs :
          \E k \in DOMAIN expLog :
              expLog[k].path # <<>> /\ IsPrefix(d, Components(expLog[k].path))
    /\ \A k \in DOMAIN expLog : expLog[k].item \notin inPipeline
    /\ exporter = "finished" => (pending = {} /\ inPipeline = {})

C14_Witness ==
    /\ exporter = "finished"
    /\ last.cb # "none"
    /\ yielded = {}
    /\ expLog = <<>>
    /\ fs = EmptyFs

ProductsOf(pend) == {r \in pend : r.cb = "parse_item"}

\* C15: the list a pending product request references as its category path
\* holds, at every moment, the labels it held when the request was issued; a
\* step that handles one response takes no other request out of the pending
\* set, leaves the page counter and category path of every request that stays
\* pending as they were, and gives a new page request the handled request's
\* counter plus one in a request of its own.
C15_NoSharedMutation ==
    /\ [](spider = txtNordstrom =>
            \A r \in ProductsOf(pending) :
                /\ MetaKey(r) \in DOMAIN metaLists
                /\ metaLists[MetaKey(r)] = r.article_type)
    /\ [][ /\ Cardinality(pending \ pending') <= 1
           /\ spider = txtNordstrom =>
                 \A r \in ProductsOf(pending \cap pending') :
                     metaLists'[MetaKey(r)] = metaLists[MetaKey(r)]
           /\ \A r \in pending' \ pending :
                 r.cb = "parse_article" => r \notin pending /\ r.page = r.qpage ]_vars

C15_Witness ==
    /\ spider = txtNordstrom
    /\ last.cb = "parse_item"
    /\ last.items # <<>>
    /\ last.items[1].article_type # last.req.article_type
    /\ \E r \in ProductsOf(pending) :
          /\ MetaKey(r) = MetaKey(last.req)
          /\ metaLists[MetaKey(r)] = last.req.article_type
    /\ \E r \in pending : r.cb = "parse_article" /\ r.link # last.req.link

\* C17: the product requests parse_article issues carry the indicator labels
\* of the grid page handled in that step and name that page, and the record
\* parse_item builds for a product request holds RemoveSaleHome of the labels
\* the request was issued with, whatever ran in between.
C17_CategoryPropagation ==
    /\ [](spider = txtNordstrom =>
            /\ last.cb = "parse_article" =>
                  \A i \in DOMAIN last.issued :
                      last.issued[i].cb = "parse_item" =>
                          /\ last.issued[i].article_type = last.indicators
                          /\ last.issued[i].link = last.req.link
                          /\ last.issued[i].grid = last.req.qpage
            /\ last.cb = "parse_item" =>
                  IF RemoveSaleHome(last.req.article_type).raised = "none"
                  THEN /\ Len(last.items) = 1
                       /\ last.items[1].article_type =
                             RemoveSaleHome(last.req.article_type).values
                       /\ last.items[1].product_url = UrlText(last.req)
                  ELSE last.items = <<>>)
    /\ [][ spider = txtNordstrom =>
             \A r \in ProductsOf(pending' \ pending) :
                 /\ last'.cb = "parse_article"
                 /\ r.article_type = last'.indicators
                 /\ metaLists'[MetaKey(r)] = last'.indicators ]_vars

C17_Witness ==
    /\ spider = txtNordstrom
    /\ last.cb = "parse_item"
    /\ last.req.article_type = <<lblHome, lblWomen, lblShoes>>
    /\ last.items # <<>>
    /\ last.items[1].article_type = <<lblWomen, lblShoes>>
    /\ \E it \in yielded : it.product_url # last.items[1].product_url

\* C16: the article_type of every record handed to export_item, and of every
\* record a callback yields, is a non-empty sequence of labels.
C16_NonEmptyArticleType ==
    /\ \A k \in DOMAIN expLog : expLog[k].item.article_type # <<>>
    /\ \A it \in yielded : it.article_type # <<>>

\* C18: on a site with finitely many pages, when responses keep being
\* delivered, a crawl with pending requests reaches a state with none, whether
\* or not downloads, callbacks or exports failed on the way.
C18_RunCompletes == (pending # {}) ~> (pending = {})

C18_Witness ==
    /\ exporter = "exporting"
    /\ pending = {}
    /\ siteLeft = 0
    /\ last.cb = "parse_article"
    /\ last.end_of_articles = "True"
    /\ \E k \in DOMAIN expLog : expLog[k].raised # "none"
    /\ \E it \in yielded : it.article_type # <<>>

\* C19: when RemoveSaleHome returns, the list object that was passed to it
\* still holds the labels it was called with.
C19_CleanupPure ==
    rshPc = "done" => rshList = rshArg

\* C20: every page request NordstromSpider.parse or parse_article issues has a
\* URL whose page parameter is its meta["page"] and whose top parameter is 4,
\* and carries the other query parameter of the URL it was made from (the
\* link's href in parse, the handled page's URL in parse_article) unchanged.
C20_QueryParams ==
    spider = txtNordstrom =>
        \A i \in DOMAIN last.issued :
            last.issued[i].cb = "parse_article" =>
                /\ last.issued[i].qpage = last.issued[i].page
                /\ last.issued[i].qtop = TopParam
                /\ last.issued[i].qother =
                      (IF last.cb = "parse" THEN LinkOther(last.issued[i].link)
                       ELSE last.req.qother)

(***************************************************************************)
(* Further claims about export_item, checked under SpecExport              *)
(***************************************************************************)
\* the export_item calls whose article_type is non-empty and made of non-empty
\* labels without a path separator
PlainCalls == {k \in DOMAIN expLog :
                  /\ Len(expLog[k].item.article_type) >= 1
                  /\ PlainLabels(expLog[k].item.article_type)}

\* two such calls resolve to the same file only for the same site and the
\* same article_type
RoutedInjective ==
    \A j, k \in PlainCalls :
        Components(expLog[j].item_path) = Components(expLog[k].item_path) =>
            /\ expLog[j].spider = expLog[k].spider
            /\ expLog[j].item.article_type = expLog[k].item.article_type

\* C21: for labels without a path separator, two records resolve to the same
\* partition file only if site and article_type are the same, and the file one
\* record resolves to is never a directory on the path of another record.
C21_InjectiveRouting ==
    /\ RoutedInjective
    /\ \A j, k \in PlainCalls :
          ~IsPrefix(Components(expLog[j].item_path), Components(expLog[k].path))

(***************************************************************************)
(* Further claims about RemoveSaleHome, checked under SpecClean            *)
(***************************************************************************)
\* C22: for every non-empty candidate list, a single-label list included,
\* RemoveSaleHome returns without raising.
C22_CleanupTotal ==
    (rshPc = "done" /\ Len(rshArg) >= 1) => rshRet.raised = "none"

====
